---- MODULE Spec2Model ----
(***************************************************************************)
(* Model of zgoubidoo's Input container (src/zgoubidoo/input.py): an       *)
(* ordered list of command records with filtering, bulk attribute          *)
(* assignment, validation, rendering and beam materialisation.             *)
(*                                                                         *)
(* One Input object ("self") is modelled.  Every operation of the class is *)
(* one action; what the operation returned, raised and wrote is recorded   *)
(* in the observation variable `last`.                                     *)
(***************************************************************************)
EXTENDS Integers, Sequences, FiniteSets

(* ------------------------------ bounds --------------------------------- *)
MaxLen == 2
MaxSlices == 2
MaxPaths == 3
MaxTmp == 3
MaxItems == 2
MaxValidators == 2
MaxOptical == 1

(* --------------------------- program constants ------------------------- *)
ZGOUBI_IMAX == 10000

\* Python's None, and the marker of an attribute a record does not have.
None == -1
Missing == -2

(* ------------------------- the commands module ------------------------- *)
\* Record classes of the commands module that input.py refers to, plus one
\* element class (Drift) standing for the magnets.
Kinds == {"Objet", "Objet2", "MCObjet", "Particule", "End", "Drift"}

\* Direct base class of each record class.
Parent(k) == IF k = "Objet2" THEN "Objet" ELSE "Command"

\* isinstance(record, cls)
IsInstance(r, cls) == cls = r.kind \/ cls = Parent(r.kind) \/ cls = "Command"

\* Names that getattr(commands, name) resolves; any other name raises
\* AttributeError.
CommandNames == Kinds \cup {"Command"}

\* A record: its class and its IMAX attribute (Missing when the class has no
\* such attribute, None when it is unset).
Rec(k, imax) == [kind |-> k, IMAX |-> imax]

\* Records a caller can append.
Commands ==
    {Rec("Objet", ZGOUBI_IMAX + 1), Rec("Objet2", ZGOUBI_IMAX), Rec("MCObjet", None),
     Rec("Particule", Missing), Rec("End", Missing), Rec("Drift", Missing)}

\* commands.End()
EndRecord == Rec("End", Missing)

\* getattr(e, key) on a record: an attribute the record does not carry reads
\* as None.
GetAttr(e, key) ==
    IF key = "IMAX" /\ e.IMAX # Missing THEN e.IMAX ELSE None

\* setattr(e, key, value) on a record.
SetAttrRec(e, key, value) ==
    IF key = "IMAX" THEN [e EXCEPT !.IMAX = value] ELSE e

(* ------------------------------- the beam ------------------------------ *)
\* beam.particle()
BeamParticle == Rec("Particule", Missing)

\* beam.objet(BORO=beam.brho) holding n particles; clear() leaves 0.
BeamObjet(n) == Rec("Objet2", n)

SliceSizes == {4000, ZGOUBI_IMAX, ZGOUBI_IMAX + 1}

RECURSIVE SeqsUpTo(_, _)
SeqsUpTo(S, n) ==
    IF n = 0 THEN {<<>>}
    ELSE LET shorter == SeqsUpTo(S, n - 1)
         IN  shorter \cup {Append(s, x) : s \in shorter, x \in S}

\* A beam: no distribution, or a distribution cut into slices (their sizes).
Beams ==
    {[dist |-> FALSE, slices |-> <<>>]} \cup
    {[dist |-> TRUE, slices |-> s] : s \in SeqsUpTo(SliceSizes, MaxSlices)}

(* ------------------------------- state --------------------------------- *)
VARIABLES
    name,       \* self._name
    line,       \* self._line
    paths,      \* self._paths: 0 is a plain path string, n > 0 the n-th TemporaryDirectory
    inputs,     \* self._inputs: identities of the generated Input objects
    optical,    \* self._optical_length, in metres
    tmpdirs,    \* the temporary directories allocated so far: "open" or "removed"
    last        \* the last operation: arguments, result, exception, files written

vars == <<name, line, paths, inputs, optical, tmpdirs, last>>

Names == {"beamline", "ring"}

Blank ==
    [op |-> "init", exc |-> "none", n |-> 0, out |-> <<>>, rname |-> <<>>,
     writes |-> <<>>, ran |-> <<>>, vs |-> <<>>, dist |-> "none",
     slices |-> <<>>, items |-> <<>>, form |-> "none", key |-> "none",
     value |-> 0, gen |-> <<>>, prev |-> "none"]

\* Input.__init__
Init ==
    /\ name = "beamline"
    /\ line = <<>>
    /\ paths = <<>>
    /\ inputs = <<>>
    /\ optical = 0
    /\ tmpdirs = <<>>
    /\ last = Blank

(* ------------------------------ rendering ------------------------------ *)
NeedsEnd(l) == Len(l) = 0 \/ ~IsInstance(l[Len(l)], "End")

\* Mutant: build appends an End record whatever the sequence ends with.
BuildLineAlways(l) == Append(l, EndRecord)

\* The record list after Input.build has run on it.
BuildLine(l) == IF NeedsEnd(l) THEN Append(l, EndRecord) ELSE l

\* Input.build: the rendered text (the name, then every record in order).
Build(nm, l) == [name |-> nm, records |-> BuildLine(l)]

\* Input.__iadd__
Add ==
    /\ Len(line) < MaxLen
    /\ \E o \in Commands :
          /\ line' = Append(line, o)
          /\ last' = [Blank EXCEPT !.op = "iadd"]
    /\ UNCHANGED <<name, paths, inputs, optical, tmpdirs>>

\* Input.__str__ / Input.__repr__
Str ==
    /\ Len(BuildLine(line)) <= MaxLen + 1
    /\ line' = BuildLine(line)
    /\ last' = [Blank EXCEPT !.op = "str", !.out = Build(name, line).records,
                             !.n = Len(BuildLine(line)) - Len(line)]
    /\ UNCHANGED <<name, paths, inputs, optical, tmpdirs>>

(* ------------------------------ filtering ------------------------------ *)
\* A discriminator handed to filtered access or to the membership test: a
\* type object, a textual name, or (after wrapping) a list object.
Type(c) == [t |-> "type", v |-> c]
Text(s) == [t |-> "str", v |-> s]
ListObj == [t |-> "list", v |-> "list"]

Discriminators == {Type("Objet"), Text("End"), Text("Bogus")}

Forms == {"single", "tuple", "list"}

\* The argument shapes a caller can pass: one bare discriminator, a tuple or
\* a list of them.
Queries ==
    {[form |-> "single", items |-> <<d>>] : d \in Discriminators} \cup
    {[form |-> f, items |-> s] :
        f \in {"tuple", "list"}, s \in SeqsUpTo(Discriminators, MaxItems)}

RECURSIVE SelectSeq2(_, _)
SelectSeq2(l, items) ==
    IF l = <<>> THEN <<>>
    ELSE IF \E i \in 1..Len(items) : IsInstance(Head(l), items[i].v)
         THEN <<Head(l)>> \o SelectSeq2(Tail(l), items)
         ELSE SelectSeq2(Tail(l), items)

\* Mutant: _filter without the except clause, the AttributeError escapes.
FilterUncaught(l, items) ==
    IF \E i \in 1..Len(items) :
          items[i].t = "str" /\ items[i].v \notin CommandNames
    THEN [exc |-> "AttributeError", l |-> <<>>]
    ELSE IF l # <<>> /\ (items = <<>> \/ \E i \in 1..Len(items) : items[i].t = "list")
    THEN [exc |-> "TypeError", l |-> <<>>]
    ELSE [exc |-> "none", l |-> SelectSeq2(l, items)]

\* Input._filter on a tuple or list of discriminators.
Filter(l, items) ==
    IF \E i \in 1..Len(items) :
          items[i].t = "str" /\ items[i].v \notin CommandNames
    THEN [exc |-> "none", l |-> <<>>]
    ELSE IF l # <<>> /\ (items = <<>> \/ \E i \in 1..Len(items) : items[i].t = "list")
    THEN [exc |-> "TypeError", l |-> <<>>]
    ELSE [exc |-> "none", l |-> SelectSeq2(l, items)]

\* Name given by __getitem__ to the filtered Input.
FilteredName(nm, items) ==
    <<nm, "filtered_by">> \o [i \in 1..Len(items) |-> items[i].v]

\* Input.__getitem__ with discriminators (the filtering branch).
GetItemFilter(nm, l, q) ==
    LET r == Filter(l, q.items)
    IN  [exc |-> r.exc, out |-> r.l, n |-> Len(r.l),
         rname |-> IF r.exc = "none" THEN FilteredName(nm, q.items) ELSE <<>>]

\* Input.__getitem__ with an int (the element-access branch).
GetItemIndex(l, i) ==
    LET j == IF i < 0 THEN Len(l) + i + 1 ELSE i + 1
    IN  IF j \in 1..Len(l)
        THEN [exc |-> "none", out |-> <<l[j]>>, n |-> 1, rname |-> <<>>]
        ELSE [exc |-> "IndexError", out |-> <<>>, n |-> 0, rname |-> <<>>]

\* Input.__contains__
Contains(l, q) ==
    LET items == IF q.form = "list" THEN <<ListObj>> ELSE q.items
        r == Filter(l, items)
    IN  [exc |-> r.exc, n |-> Len(r.l)]

\* Input.__getitem__
GetItem ==
    /\ \/ \E q \in Queries :
            \E r \in {GetItemFilter(name, line, q)} :
                last' = [Blank EXCEPT !.op = "getitem", !.exc = r.exc,
                                      !.out = r.out, !.n = r.n, !.rname = r.rname,
                                      !.items = q.items, !.form = q.form]
       \/ \E i \in -1..MaxLen :
            \E r \in {GetItemIndex(line, i)} :
                last' = [Blank EXCEPT !.op = "getitem", !.exc = r.exc,
                                      !.out = r.out, !.n = r.n,
                                      !.form = "int", !.value = i]
    /\ UNCHANGED <<name, line, paths, inputs, optical, tmpdirs>>

\* Input.__contains__
ContainsOp ==
    /\ \E q \in Queries :
          \E r \in {Contains(line, q)} :
              last' = [Blank EXCEPT !.op = "contains", !.exc = r.exc, !.n = r.n,
                                    !.items = q.items, !.form = q.form]
    /\ UNCHANGED <<name, line, paths, inputs, optical, tmpdirs>>

(* ------------------------ bulk attribute assignment -------------------- *)
Keys == {"IMAX", "XL", "_name"}
Values == {None, ZGOUBI_IMAX + 1}

IsPrivate(key) == key = "_name"

\* Mutant: the loop sets the attribute on every record that has it, null or
\* not.
SetAllPresent(l, key, value) ==
    [i \in 1..Len(l) |->
        IF key = "IMAX" /\ l[i].IMAX # Missing THEN SetAttrRec(l[i], key, value) ELSE l[i]]

\* The loop of Input.__setattr__ over the records.
SetAll(l, key, value) ==
    [i \in 1..Len(l) |->
        IF GetAttr(l[i], key) # None THEN SetAttrRec(l[i], key, value) ELSE l[i]]

\* Input.__setattr__
SetAttr ==
    \/ /\ \E nm \in Names :
             /\ name' = nm
             /\ last' = [Blank EXCEPT !.op = "setattr", !.key = "_name"]
       /\ UNCHANGED <<line, paths, inputs, optical, tmpdirs>>
    \/ /\ \E key \in {k \in Keys : ~IsPrivate(k)}, value \in Values :
             /\ line' = SetAll(line, key, value)
             /\ last' = [Blank EXCEPT !.op = "setattr", !.key = key,
                                      !.value = value, !.out = line]
       /\ UNCHANGED <<name, paths, inputs, optical, tmpdirs>>

(* --------------------------- bulk transform ---------------------------- *)
Transforms == {"identity", "to_drift"}

ApplyF(f, e) == IF f = "to_drift" THEN Rec("Drift", Missing) ELSE e

\* Input.apply
Apply ==
    /\ \E f \in Transforms :
          /\ line' = [i \in 1..Len(line) |-> ApplyF(f, line[i])]
          /\ last' = [Blank EXCEPT !.op = "apply", !.key = f]
    /\ UNCHANGED <<name, paths, inputs, optical, tmpdirs>>

(* ---------------------------- optical length --------------------------- *)
Lengths == {-1, 1}

\* Input.increase_optical_length
IncreaseOpticalLength ==
    /\ \E l \in Lengths :
          /\ optical + l \in (0 - MaxOptical)..MaxOptical
          /\ optical' = optical + l
          /\ last' = [Blank EXCEPT !.op = "increase_optical_length", !.value = l]
    /\ UNCHANGED <<name, line, paths, inputs, tmpdirs>>

(* ------------------------------ validation ----------------------------- *)
Validators == {"first", "imax"}

\* InputValidator.validate_objet_is_first_command: TRUE when it passes.
validate_objet_is_first_command(l) ==
    ~(Len(l) > 0 /\ ~(IsInstance(l[1], "Objet") \/ IsInstance(l[1], "MCObjet")))

\* o.IMAX or 0.0
ImaxOrZero(o) == IF GetAttr(o, "IMAX") = None THEN 0 ELSE o.IMAX

\* InputValidator.validate_objets_do_not_exceed_imax: TRUE when it passes.
validate_objets_do_not_exceed_imax(l) ==
    LET objets == Filter(l, <<Type("Objet"), Type("MCObjet")>>).l
    IN  \A i \in 1..Len(objets) : ~(ImaxOrZero(objets[i]) > ZGOUBI_IMAX)

RunValidator(v, l) ==
    IF v = "first" THEN validate_objet_is_first_command(l)
    ELSE validate_objets_do_not_exceed_imax(l)

\* Mutant: validate runs every validator and raises at the end.
RECURSIVE ValidateAll(_, _, _)
ValidateAll(l, vs, ran) ==
    IF vs = <<>>
    THEN IF \E k \in 1..Len(ran) : ~RunValidator(ran[k], l)
         THEN [exc |-> "ZgoubiInputException", ran |-> ran, ret |-> 0]
         ELSE [exc |-> "none", ran |-> ran, ret |-> 1]
    ELSE ValidateAll(l, Tail(vs), Append(ran, Head(vs)))

\* Input.validate: the validators that ran, in order, and the outcome.
RECURSIVE Validate(_, _, _)
Validate(l, vs, ran) ==
    IF vs = <<>> THEN [exc |-> "none", ran |-> ran, ret |-> 1]
    ELSE IF ~RunValidator(Head(vs), l)
         THEN [exc |-> "ZgoubiInputException", ran |-> Append(ran, Head(vs)), ret |-> 0]
         ELSE Validate(l, Tail(vs), Append(ran, Head(vs)))

ValidatorLists == SeqsUpTo(Validators, MaxValidators)

\* Input.validate
ValidateOp ==
    /\ \E vs \in ValidatorLists :
          \E r \in {Validate(line, vs, <<>>)} :
              last' = [Blank EXCEPT !.op = "validate", !.exc = r.exc, !.ran = r.ran,
                                    !.n = r.ret, !.vs = vs, !.out = line]
    /\ UNCHANGED <<name, line, paths, inputs, optical, tmpdirs>>

(* ----------------------------- serialisation --------------------------- *)
\* One open-write-close of Input.write: the directory, the mode, the text.
FileWrite(dir, mode, text) == [dir |-> dir, mode |-> mode, text |-> text]

\* Input.write on an Input with name nm and records l: validators is a list,
\* or None (hasvs = FALSE).
WriteInput(nm, l, dir, mode, hasvs, vs) ==
    LET r == IF hasvs THEN Validate(l, vs, <<>>)
                      ELSE [exc |-> "none", ran |-> <<>>, ret |-> 1]
    IN  IF r.exc # "none"
        THEN [exc |-> r.exc, ran |-> r.ran, line |-> l, writes |-> <<>>, ret |-> 0]
        ELSE [exc |-> "none", ran |-> r.ran, line |-> BuildLine(l),
              writes |-> <<FileWrite(dir, mode, Build(nm, l))>>,
              ret |-> 1 + Len(BuildLine(l))]

\* Input.write(self, ...)
Write ==
    /\ Len(BuildLine(line)) <= MaxLen + 1
    /\ \E hasvs \in BOOLEAN, vs \in ValidatorLists :
          /\ hasvs \/ vs = <<>>
          /\ \E r \in {WriteInput(name, line, 0, "w", hasvs, vs)} :
                 /\ line' = r.line
                 /\ last' = [Blank EXCEPT !.op = "write", !.exc = r.exc, !.ran = r.ran,
                                          !.writes = r.writes, !.n = r.ret, !.vs = vs,
                                          !.form = IF hasvs THEN "validators" ELSE "None",
                                          !.out = line]
    /\ UNCHANGED <<name, paths, inputs, optical, tmpdirs>>

(* --------------------------- beam materialisation ---------------------- *)
\* Identity of the next generated Input object.
NewInput(ins) == IF ins = <<>> THEN 1 ELSE ins[Len(ins)] + 1

\* Mutant: the working copy is written but not recorded as a sibling input.
MaterialiseUnrecorded(st, nm, payload, id) ==
    LET tmp == Len(st.tmpdirs) + 1
        gen == [st.gen EXCEPT ![1] = BeamObjet(payload)]
        w == WriteInput(nm, gen, tmp, "w", FALSE, <<>>)
    IN  [st EXCEPT !.gen = w.line,
                   !.tmpdirs = Append(st.tmpdirs, "open"),
                   !.paths = Append(st.paths, tmp),
                   !.writes = st.writes \o w.writes]

\* One pass of the body that records and writes the working copy: allocate a
\* TemporaryDirectory, record it and the working copy, write into it.
Materialise(st, nm, payload, id) ==
    LET tmp == Len(st.tmpdirs) + 1
        gen == [st.gen EXCEPT ![1] = BeamObjet(payload)]
        w == WriteInput(nm, gen, tmp, "w", FALSE, <<>>)
    IN  [st EXCEPT !.gen = w.line,
                   !.tmpdirs = Append(st.tmpdirs, "open"),
                   !.paths = Append(st.paths, tmp),
                   !.inputs = Append(st.inputs, id),
                   !.writes = st.writes \o w.writes]

\* Mutant: the loop tests the slice size after recording and writing it.
RECURSIVE BindSlicesLate(_, _, _, _)
BindSlicesLate(st, nm, slices, id) ==
    IF slices = <<>> THEN st
    ELSE IF Head(slices) > ZGOUBI_IMAX
         THEN [Materialise(st, nm, Head(slices), id) EXCEPT !.exc = "ZgoubiInputException"]
         ELSE BindSlicesLate(Materialise(st, nm, Head(slices), id), nm, Tail(slices), id)

\* The loop of Input.__call__ over beam.slices.
RECURSIVE BindSlices(_, _, _, _)
BindSlices(st, nm, slices, id) ==
    IF slices = <<>> THEN st
    ELSE IF Head(slices) > ZGOUBI_IMAX
         THEN [st EXCEPT !.exc = "ZgoubiInputException"]
         ELSE BindSlices(Materialise(st, nm, Head(slices), id), nm, Tail(slices), id)

\* Input.__call__ with a beam.
BindBeam(nm, l, ps, ins, tds, beam) ==
    LET objets == GetItemFilter(nm, l, [form |-> "single", items |-> <<Type("Objet2")>>])
        particules == GetItemFilter(nm, l, [form |-> "single", items |-> <<Type("Particule")>>])
        st0 == [gen |-> <<>>, paths |-> ps, inputs |-> ins, tmpdirs |-> tds,
                writes |-> <<>>, exc |-> "none"]
    IN  IF objets.n = 0 /\ particules.n = 0
        THEN LET st1 == [st0 EXCEPT !.gen = <<BeamObjet(0), BeamParticle>> \o l]
             IN  IF ~beam.dist
                 THEN Materialise(st1, nm, 0, NewInput(ins))
                 ELSE BindSlices(st1, nm, beam.slices, NewInput(ins))
        ELSE [st0 EXCEPT !.exc = "ZgoubiInputException"]

\* Input.__call__
Call ==
    \/ /\ Len(paths) < MaxPaths
       /\ Len(BuildLine(line)) <= MaxLen + 1
       /\ \E w \in {WriteInput(name, line, 0, "w", FALSE, <<>>)} :
              /\ paths' = Append(paths, 0)
              /\ line' = w.line
              /\ last' = [Blank EXCEPT !.op = "call", !.dist = "nobeam",
                                       !.writes = w.writes, !.out = line]
       /\ UNCHANGED <<name, inputs, optical, tmpdirs>>
    \/ \E beam \in Beams :
          /\ Len(paths) + (IF beam.dist THEN Len(beam.slices) ELSE 1) <= MaxPaths
          /\ Len(tmpdirs) + (IF beam.dist THEN Len(beam.slices) ELSE 1) <= MaxTmp
          /\ \E st \in {BindBeam(name, line, paths, inputs, tmpdirs, beam)} :
              /\ paths' = st.paths
              /\ inputs' = st.inputs
              /\ tmpdirs' = st.tmpdirs
              /\ last' = [Blank EXCEPT !.op = "call",
                                       !.dist = IF beam.dist THEN "slices" ELSE "none",
                                       !.slices = beam.slices, !.exc = st.exc,
                                       !.writes = st.writes, !.gen = st.gen,
                                       !.out = line]
          /\ UNCHANGED <<name, line, optical>>

(* -------------------------------- cleanup ------------------------------ *)
\* A tracked handle with a cleanup() method: a TemporaryDirectory.
IsTempDir(p) == p > 0

\* Mutant: cleanup forgets the handles without releasing them.
ReleaseNone(tds, ps) == tds

\* The loop of Input.cleanup over the tracked handles.
Release(tds, ps) ==
    [i \in 1..Len(tds) |->
        IF \E j \in 1..Len(ps) : IsTempDir(ps[j]) /\ ps[j] = i THEN "removed" ELSE tds[i]]

\* Input.cleanup
Cleanup ==
    /\ tmpdirs' = Release(tmpdirs, paths)
    /\ paths' = <<>>
    /\ last' = [Blank EXCEPT !.op = "cleanup", !.n = Len(paths), !.prev = last.op,
                             !.value = Cardinality({j \in 1..Len(paths) : IsTempDir(paths[j])})]
    /\ UNCHANGED <<name, line, inputs, optical>>

\* Materialisation: appending records, binding a beam and cleaning up.
Next == Add \/ Call \/ Cleanup

Spec == Init /\ [][Next]_vars

\* Rendering, validation and serialisation.
NextRender == Add \/ Str \/ ValidateOp \/ Write

SpecRender == Init /\ [][NextRender]_vars

\* Filtered access and the membership test.
NextFilter == Add \/ GetItem \/ ContainsOp

SpecFilter == Init /\ [][NextFilter]_vars

\* Bulk updates of the records and of the container's own state.
NextBulk == Add \/ SetAttr \/ Apply \/ IncreaseOpticalLength

SpecBulk == Init /\ [][NextBulk]_vars

(* =============================== claims ================================ *)
Last(l) == l[Len(l)]

\* The record is a Particule or belongs to the Objet family.
IsParticuleOrObjet(r) == r.kind \in {"Particule", "Objet", "Objet2", "MCObjet"}

HasParticuleOrObjet(l) == \E i \in 1..Len(l) : IsParticuleOrObjet(l[i])

BeamCall(l) == l.op = "call" /\ l.dist # "nobeam"

\* C1: calling the Input with a beam when it already holds a Particule or an
\* Objet-family record (Objet, MCObjet or a subclass) raises
\* ZgoubiInputException and writes nothing; the tracked paths, the sibling
\* inputs and the record sequence stay as they were.
C1_BeamOnObjetRaises ==
    [][(BeamCall(last') /\ HasParticuleOrObjet(line)) =>
          /\ last'.exc = "ZgoubiInputException"
          /\ last'.writes = <<>>
          /\ UNCHANGED <<paths, inputs, line>>]_vars

\* The slices of the call are all within the ceiling.
AllWithinCeiling(slices) == \A k \in 1..Len(slices) : slices[k] <= ZGOUBI_IMAX

\* What binding N slices must record: N new paths, N new sibling inputs, N
\* writes in slice order, the k-th into the k-th new directory.
RecordsSlices(N) ==
    /\ Len(paths') = Len(paths) + N
    /\ Len(inputs') = Len(inputs) + N
    /\ SubSeq(paths', 1, Len(paths)) = paths
    /\ SubSeq(inputs', 1, Len(inputs)) = inputs
    /\ Len(last'.writes) = N
    /\ \A k \in 1..N : /\ last'.writes[k].dir = paths'[Len(paths) + k]
                       /\ IsTempDir(last'.writes[k].dir)
                       /\ last'.writes[k].text.records[1] = BeamObjet(last'.slices[k])

SlicedCallWithinCeiling ==
    /\ BeamCall(last') /\ last'.dist = "slices"
    /\ ~HasParticuleOrObjet(line)
    /\ AllWithinCeiling(last'.slices)

\* C2 (as stated): binding a beam of N slices, each of at most 10000
\* particles, to an Input without Particule/Objet records appends N paths
\* and N sibling inputs and writes N times in slice order; every written
\* record sequence is the objet record, the particle record, then the
\* original records in their order.
C2_WrittenIsObjetParticleOriginal ==
    [][SlicedCallWithinCeiling =>
          /\ last'.exc = "none"
          /\ RecordsSlices(Len(last'.slices))
          /\ \A k \in 1..Len(last'.writes) :
                last'.writes[k].text.records =
                    <<BeamObjet(last'.slices[k]), BeamParticle>> \o line]_vars

\* The End record rendering adds to a sequence that does not end with one.
Terminator(l) ==
    IF l = <<>> \/ Last(l).kind # "End" THEN <<EndRecord>> ELSE <<>>

\* C2 (amended): as C2, but every written record sequence is the objet
\* record, the particle record, the original records in their order and then
\* one End record when the original sequence is empty or does not end with
\* an End.
C2_WrittenIsObjetParticleOriginalEnd ==
    [][SlicedCallWithinCeiling =>
          /\ last'.exc = "none"
          /\ RecordsSlices(Len(last'.slices))
          /\ \A k \in 1..Len(last'.writes) :
                last'.writes[k].text.records =
                    <<BeamObjet(last'.slices[k]), BeamParticle>> \o line \o Terminator(line)]_vars

C2_Witness ==
    /\ BeamCall(last) /\ last.dist = "slices" /\ last.exc = "none"
    /\ Len(last.slices) = 2 /\ last.slices[1] # last.slices[2]
    /\ Len(last.writes) = 2
    /\ Len(last.out) = 2 /\ last.out[1] # last.out[2]
    /\ ~HasParticuleOrObjet(last.out)

\* C3: build appends exactly one End record if and only if the sequence was
\* empty or its last record was not an End, and nothing otherwise; a second
\* render does not change the length; after a render the last record is an
\* End.
C3_BuildAppendsOneEnd ==
    [][last'.op = "str" =>
          /\ (line = <<>> \/ Last(line).kind # "End") => line' = Append(line, EndRecord)
          /\ (line # <<>> /\ Last(line).kind = "End") => line' = line
          /\ line' # <<>> /\ Last(line').kind = "End"
          /\ last.op = "str" => Len(line') = Len(line)]_vars

C3_Witness ==
    /\ last.op = "str" /\ last.n = 1
    /\ Len(line) = 3 /\ line[2].kind # "End" /\ line[1].kind = "End"

\* The record already exposes a non-null value for the attribute.
Exposes(r, key) == key = "IMAX" /\ r.IMAX # Missing /\ r.IMAX # None

PublicSet(l) == l.op = "setattr" /\ l.key \in {"IMAX", "XL"}

\* C4: setting a public attribute on an Input sets it on exactly the records
\* that already expose a non-null value for it; records that lack it or hold
\* a null value are left unchanged, the assignment completes without error,
\* and no attribute of the container itself changes.
C4_BulkSetTouchesExposingRecords ==
    [][PublicSet(last') =>
          /\ last'.exc = "none"
          /\ Len(line') = Len(line)
          /\ \A i \in 1..Len(line) :
                IF Exposes(line[i], last'.key)
                THEN line'[i] = [kind |-> line[i].kind, IMAX |-> last'.value]
                ELSE line'[i] = line[i]
          /\ UNCHANGED <<name, paths, inputs, optical>>]_vars

C4_Witness ==
    /\ PublicSet(last) /\ last.key = "IMAX"
    /\ \E i, j \in 1..Len(line) :
          /\ Exposes(last.out[i], "IMAX") /\ line[i] # last.out[i]
          /\ ~Exposes(last.out[j], "IMAX") /\ line[j] = last.out[j]

\* The record's runtime type matches the discriminator: the type object, or
\* the record type the text names.
Matches(r, d) ==
    /\ d.v \in CommandNames
    /\ r.kind = d.v \/ (r.kind = "Objet2" /\ d.v = "Objet") \/ d.v = "Command"

RECURSIVE Matching(_, _)
Matching(l, items) ==
    IF l = <<>> THEN <<>>
    ELSE (IF \E i \in 1..Len(items) : Matches(Head(l), items[i])
          THEN <<Head(l)>> ELSE <<>>) \o Matching(Tail(l), items)

AllKnown(items) == \A i \in 1..Len(items) : items[i].v \in CommandNames

\* C5: for every non-empty set of discriminators (type objects or textual
\* keyword names), filtered access returns exactly the records whose runtime
\* type matches at least one of them, in their original order, and the
\* membership test returns the length of that result for the same set.
C5_FilterAgreesWithContains ==
    /\ (last.op = "getitem" /\ last.form \in Forms /\ last.items # <<>> /\ AllKnown(last.items))
          => (last.exc = "none" /\ last.out = Matching(line, last.items))
    /\ (last.op = "contains" /\ last.items # <<>> /\ AllKnown(last.items))
          => (last.exc = "none" /\ last.n = Len(Matching(line, last.items)))

HasUnknownText(items) ==
    \E i \in 1..Len(items) : items[i].t = "str" /\ items[i].v \notin CommandNames

Tracked(ps, i) == \E j \in 1..Len(ps) : ps[j] = i

\* C7: cleanup() releases every tracked temporary directory, skips plain
\* path strings without raising and leaves the tracked-paths list empty, a
\* second cleanup() right after it included; every temporary directory
\* allocated by beam binding stays tracked until then, and none is released
\* by any other operation.
C7_CleanupReleasesTracked ==
    [][/\ last'.op = "cleanup" =>
            /\ last'.exc = "none"
            /\ paths' = <<>>
            /\ Len(tmpdirs') = Len(tmpdirs)
            /\ \A i \in 1..Len(tmpdirs) :
                  tmpdirs'[i] = IF Tracked(paths, i) THEN "removed" ELSE tmpdirs[i]
            /\ \A i \in 1..Len(tmpdirs') : tmpdirs'[i] = "removed"
       /\ last'.op # "cleanup" =>
            /\ \A i \in 1..Len(tmpdirs) : tmpdirs'[i] = tmpdirs[i]
            /\ \A i \in 1..Len(tmpdirs') : tmpdirs'[i] = "open" => Tracked(paths', i)]_vars

C7_Witness ==
    /\ last.op = "cleanup" /\ last.value >= 1 /\ last.n > last.value
    /\ paths = <<>>
    /\ \A i \in 1..Len(tmpdirs) : tmpdirs[i] = "removed"

\* The validators of vs that fail on the records l, by position.
Failing(vs, l) == {k \in 1..Len(vs) : ~RunValidator(vs[k], l)}

Min(S) == CHOOSE k \in S : \A m \in S : k <= m

Validated(l) == l.op = "validate" \/ (l.op = "write" /\ l.form = "validators")

\* C8: validate runs the validators in list order; the first that fails
\* raises and no later one is run; if all pass it returns True.  write given
\* validators validates before opening the file: a failure propagates and no
\* file is opened or written.
C8_ValidateStopsAtFirstFailure ==
    Validated(last) =>
        IF Failing(last.vs, last.out) # {}
        THEN /\ last.exc = "ZgoubiInputException"
             /\ last.ran = SubSeq(last.vs, 1, Min(Failing(last.vs, last.out)))
             /\ last.writes = <<>>
             /\ line = last.out
        ELSE /\ last.exc = "none"
             /\ last.ran = last.vs
             /\ last.op = "validate" => last.n = 1 /\ line = last.out
             /\ last.op = "write" => Len(last.writes) = 1

C8_Witness ==
    /\ last.op = "write" /\ last.form = "validators"
    /\ Len(last.vs) = 2 /\ Len(last.ran) = 1
    /\ last.exc = "ZgoubiInputException"
    /\ last.writes = <<>>

\* C9: the optical-length accumulator starts at 0 and never decreases:
\* increase_optical_length(l) sets it to its previous value plus l, and no
\* other operation changes it.
C9_OpticalLengthNeverDecreases ==
    [][/\ optical' >= optical
       /\ last'.op = "increase_optical_length" => optical' = optical + last'.value
       /\ last'.op # "increase_optical_length" => optical' = optical]_vars

\* The code's test for an Input a beam can be bound to.
Bindable(l) == \A i \in 1..Len(l) : l[i].kind \notin {"Objet2", "Particule"}

FirstOver(slices) == Min({k \in 1..Len(slices) : slices[k] > ZGOUBI_IMAX})

\* C10: when slice k is the first with more than 10000 particles, binding
\* raises ZgoubiInputException after recording and writing exactly the k-1
\* preceding slices, which are not rolled back; beam binding never changes
\* the Input's own record sequence, only the working copy gains the objet,
\* particle and End records.
C10_OversizedSliceStopsBinding ==
    [][BeamCall(last') =>
          /\ line' = line
          /\ (Bindable(line) /\ last'.exc = "none" /\ last'.writes # <<>>) =>
                last'.gen = <<last'.gen[1], BeamParticle>> \o line \o Terminator(line)
          /\ (Bindable(line) /\ last'.dist = "slices" /\ ~AllWithinCeiling(last'.slices)) =>
                /\ last'.exc = "ZgoubiInputException"
                /\ RecordsSlices(FirstOver(last'.slices) - 1)]_vars

C10_Witness ==
    /\ BeamCall(last) /\ last.dist = "slices"
    /\ Len(last.slices) = 2 /\ last.slices[1] <= ZGOUBI_IMAX /\ last.slices[2] > ZGOUBI_IMAX
    /\ last.exc = "ZgoubiInputException"
    /\ Len(last.writes) = 1
    /\ Len(paths) >= 1 /\ Len(inputs) >= 1
====
